---------------------------- MODULE Spec2Model ----------------------------
(***************************************************************************)
(* FileMaker Data API adapter: the session-and-query client (token         *)
(* acquisition and release, layout metadata, record search) and the tool   *)
(* handlers that call it.  The repository carries four snapshots of the    *)
(* client; the model carries all four and says which one is running.       *)
(***************************************************************************)
EXTENDS Integers, Sequences, FiniteSets, TLC

VARIABLES
    snapshot,          \* which snapshot of the client is the running program
    environ,           \* process.env, read once at start-up
    pc,                \* per invocation: idle, the core operation awaiting its
                       \* fetch, returned or threw
    call,              \* per invocation: the tool and the params the host passed
    requests,          \* per invocation: the fetch calls issued, in order
    replies,           \* per invocation: how each fetch settled, in order
    raised,            \* per invocation: the exception that reached the catch
                       \* block of the core operation
    thrown,            \* per invocation: the exception the handler let escape
    tokenResponse,     \* per invocation: envelope returned by getFileMakerToken
    findResponse,      \* per invocation: envelope returned by findRecords
    metaDataResponse,  \* per invocation: envelope returned by getLayoutMetaData
    output             \* per invocation: what the tool handler handed to the host

vars == <<snapshot, environ, pc, call, requests, replies, raised, thrown,
          tokenResponse, findResponse, metaDataResponse, output>>

---------------------------------------------------------------------------
(* Bounds of the model.                                                    *)

\* records in a find reply's response.data (and descriptors in fieldMetaData)
MaxRecords == 2

\* tool invocations in flight at the same time
Concurrent == 2

---------------------------------------------------------------------------
(* JavaScript scalars: a type tag and the value's text.                    *)

Undef == [t |-> "undefined", v |-> ""]
Null == [t |-> "null", v |-> ""]
Str(s) == [t |-> "string", v |-> s]
Num(s) == [t |-> "number", v |-> s]
Bool(s) == [t |-> "boolean", v |-> s]

\* ToBoolean
Truthy(x) ==
    CASE x.t = "string" -> x.v # ""
      [] x.t = "number" -> x.v # "0"
      [] x.t = "boolean" -> x.v = "true"
      [] x.t \in {"undefined", "null"} -> FALSE
      [] OTHER -> TRUE

\* a || b
OrElse(a, b) == IF Truthy(a) THEN a ELSE b

\* a default applied with || : used whenever the argument is falsy
DefaultParam_Truthy(a, d) == IF Truthy(a) THEN a ELSE d

\* a default parameter value: used only when the argument is undefined
DefaultParam(a, d) == IF a.t = "undefined" THEN d ELSE a

\* `${x}` : template interpolation (ToString)
Tmpl(x) ==
    CASE x.t = "undefined" -> "undefined"
      [] x.t = "null" -> "null"
      [] OTHER -> x.v

\* String.prototype.includes
Includes(s, sub) ==
    \E i \in 1..(Len(s) - Len(sub) + 1) : SubSeq(s, i, i + Len(sub) - 1) = sub

\* Buffer.from(s).toString('base64'), kept symbolic: an injective encoding of s
Base64(s) == "base64<" \o s \o ">"

---------------------------------------------------------------------------
(* Exceptions and completions.                                             *)

Error(name, message) == [isError |-> TRUE, name |-> name, message |-> message]

\* reading property `prop` of undefined or null
CannotRead(of, prop) ==
    Error("TypeError",
          "Cannot read properties of " \o of \o " (reading '" \o prop \o "')")

\* String(error)
StringOf(e) == e.name \o ": " \o e.message

NoError == [isError |-> FALSE, name |-> "", message |-> ""]

Ret(v) == [kind |-> "return", value |-> v]
Throw(e) == [kind |-> "throw", error |-> e]

---------------------------------------------------------------------------
(* Decoded JSON bodies.  A body is { messages, response }; a key the       *)
(* server left out reads as undefined.                                     *)

NoArray == [t |-> "undefined", items |-> <<>>]
Array(s) == [t |-> "array", items |-> s]

NoMessages == NoArray
NoResponse ==
    [t |-> "undefined", token |-> Undef, data |-> NoArray, fieldMetaData |-> NoArray]
NullResponse ==
    [t |-> "null", token |-> Undef, data |-> NoArray, fieldMetaData |-> NoArray]
StringResponse ==
    [t |-> "string", token |-> Undef, data |-> NoArray, fieldMetaData |-> NoArray]

\* JSON null: also what makeFileMakerRequest returns for "no response"
NullBody == [t |-> "null", messages |-> NoMessages, response |-> NoResponse]
\* a JSON string at top level: truthy, but no object
StringBody == [t |-> "string", messages |-> NoMessages, response |-> NoResponse]
ObjectBody(m, r) == [t |-> "object", messages |-> m, response |-> r]


---------------------------------------------------------------------------
(* How a fetch settles: it rejects (network failure), resolves with a      *)
(* status that is not ok, resolves ok with a body that is no JSON, or      *)
(* resolves ok with a decoded body.                                        *)

FetchError == Error("TypeError", "fetch failed")
JsonError == Error("SyntaxError", "Unexpected token < in JSON at position 0")

\* the JSON error document the server sends along with a status that is not ok
ErrorBody(status) ==
    ObjectBody(Array(<<[code |-> Str(status), message |-> Str("Server error")]>>),
               NoResponse)

Rejected == [kind |-> "reject", status |-> "", body |-> NullBody]
NotOk(status) == [kind |-> "status", status |-> status, body |-> ErrorBody(status)]
BadJson == [kind |-> "badjson", status |-> "200", body |-> NullBody]
Json(body) == [kind |-> "json", status |-> "200", body |-> body]

---------------------------------------------------------------------------
(* Result envelopes.  A key that the code does not write is absent from    *)
(* the record, as it is from the JavaScript object.                        *)

Success(data) == [success |-> TRUE, data |-> data]
\* a failure envelope that carries a data key as well
Failure_WithData(type, message, details) ==
    [success |-> FALSE, data |-> Null,
     error |-> [type |-> type, message |-> message, details |-> details]]

Failure(type, message, details) ==
    [success |-> FALSE,
     error |-> [type |-> type, message |-> message, details |-> details]]

\* 'FileMakerサーバーからの応答が無効です'
InvalidResponseMessage == "FileMaker server response is invalid"

---------------------------------------------------------------------------
(* Helper functions.                                                       *)

isTokenResponse(data) ==
    /\ data.t # "null"
    /\ data.t = "object"
    /\ data.response.t # "undefined"
    /\ data.response.t \in {"object", "null"}
    /\ data.response.t # "null"
    /\ data.response.token.t # "undefined"
    /\ data.response.token.t = "string"

\* JSON.stringify, kept symbolic: the text of the document
JSONstringify(doc) == [json |-> doc]

\* { query: [ { [fieldName]: `=${searchText}` } ] }
FindQuery(fieldName, searchText) ==
    [query |-> << (Tmpl(fieldName) :> ("=" \o Tmpl(searchText))) >>]

\* makeFileMakerRequest up to its fetch: the arguments fetch is called with.
\* buildsQuery: the snapshot's helper has the "build the query" block.
makeFileMakerRequestInit(url, options, buildsQuery) ==
    LET headers == options.headers @@ ("Content-Type" :> "application/json")
        build == /\ buildsQuery
                 /\ "fieldName" \in DOMAIN options
                 /\ Truthy(options.fieldName)
                 /\ Truthy(options.searchText)
                 /\ Includes(url, "/_find")
        base == [url |-> url, method |-> options.method, headers |-> headers]
    IN  IF build
        THEN base @@ [body |-> JSONstringify(FindQuery(options.fieldName,
                                                       options.searchText))]
        ELSE IF "body" \in DOMAIN options
             THEN base @@ [body |-> options.body]
             ELSE base

\* makeFileMakerRequest without its `if (!response.ok) throw`: the body of
\* an error status is decoded and returned
makeFileMakerRequestResult_NoOkCheck(outcome) ==
    IF outcome.kind \in {"json", "status"} THEN outcome.body ELSE NullBody

\* makeFileMakerRequest from its fetch on: the decoded body, or null
makeFileMakerRequestResult(outcome) ==
    IF outcome.kind = "json" THEN outcome.body ELSE NullBody

\* response.messages[0]: the message, or the TypeError the read raises
MessagesHead(response) ==
    IF response.t = "null" THEN Throw(CannotRead("null", "messages"))
    ELSE IF response.messages.t = "undefined"
         THEN Throw(CannotRead("undefined", "0"))
    ELSE IF Len(response.messages.items) = 0
         THEN Throw(CannotRead("undefined", "code"))
    ELSE Ret(response.messages.items[1])

\* the conditional of ErrorMessage with its branches swapped
ErrorMessage_Swapped(error) ==
    IF error.isError THEN "Unknown error" ELSE error.message

\* error instanceof Error ? error.message : 'Unknown error'
ErrorMessage(error) ==
    IF error.isError THEN error.message ELSE "Unknown error"

---------------------------------------------------------------------------
(* getFileMakerToken.  guarded: the snapshot calls isTokenResponse.        *)

\* getFileMakerToken testing the token for truthiness where the code tests
\* typeof token === 'string': an empty token counts as missing
getFileMakerTokenTry_TruthyToken(url, response, guarded) ==
    IF \/ response.t = "null"
       \/ guarded /\ ~isTokenResponse(response)
       \/ ~Truthy(response.response.token)
    THEN Ret(Failure("INVALID_RESPONSE", Str(InvalidResponseMessage),
                     [url |-> url]))
    ELSE LET head == MessagesHead(response) IN
         IF head.kind = "throw" THEN head
         ELSE IF head.value.code # Str("0")
         THEN Ret(Failure("FILEMAKER_ERROR", head.value.message,
                          [code |-> head.value.code, url |-> url]))
         ELSE Ret(Success([token |-> response.response.token]))

getFileMakerTokenTry(url, response, guarded) ==
    IF response.t = "null" \/ (guarded /\ ~isTokenResponse(response))
    THEN Ret(Failure("INVALID_RESPONSE", Str(InvalidResponseMessage),
                     [url |-> url]))
    ELSE LET head == MessagesHead(response) IN
         IF head.kind = "throw" THEN head
         ELSE IF head.value.code # Str("0")
         THEN Ret(Failure("FILEMAKER_ERROR", head.value.message,
                          [code |-> head.value.code, url |-> url]))
         ELSE IF response.response.t \in {"undefined", "null"}
         THEN Throw(CannotRead(response.response.t, "token"))
         ELSE Ret(Success([token |-> response.response.token]))

getFileMakerTokenCatch(url, error) ==
    Failure("API_ERROR", Str(ErrorMessage(error)),
            [url |-> url, originalError |-> StringOf(error)])

getFileMakerToken(url, response, guarded) ==
    LET c == getFileMakerTokenTry(url, response, guarded) IN
    IF c.kind = "throw" THEN getFileMakerTokenCatch(url, c.error) ELSE c.value

---------------------------------------------------------------------------
(* findRecords.  details: the snapshot's { fileName, layoutName } map      *)
(* (with serverUrl in part_000).                                            *)

\* findRecords comparing the code with != where the code has !==
findRecordsTry_LooseCode(details, response) ==
    IF response.t = "null"
    THEN Ret(Failure("INVALID_RESPONSE", Str(InvalidResponseMessage), details))
    ELSE LET head == MessagesHead(response) IN
         IF head.kind = "throw" THEN head
         ELSE IF Tmpl(head.value.code) # "0"
         THEN Ret(Failure("FILEMAKER_ERROR", head.value.message,
                          [code |-> head.value.code] @@ details))
         ELSE IF response.response.t \in {"undefined", "null"}
         THEN Throw(CannotRead(response.response.t, "data"))
         ELSE Ret(Success(response.response.data))

\* findRecords returning the first record only (response.response.data
\* cut to a page of one)
findRecordsTry_FirstOnly(details, response) ==
    IF response.t = "null"
    THEN Ret(Failure("INVALID_RESPONSE", Str(InvalidResponseMessage), details))
    ELSE LET head == MessagesHead(response) IN
         IF head.kind = "throw" THEN head
         ELSE IF head.value.code # Str("0")
         THEN Ret(Failure("FILEMAKER_ERROR", head.value.message,
                          [code |-> head.value.code] @@ details))
         ELSE IF response.response.t \in {"undefined", "null"}
         THEN Throw(CannotRead(response.response.t, "data"))
         ELSE IF \/ response.response.data.t = "undefined"
                 \/ Len(response.response.data.items) < 2
         THEN Ret(Success(response.response.data))
         ELSE Ret(Success(Array(SubSeq(response.response.data.items, 1, 1))))

findRecordsTry(details, response) ==
    IF response.t = "null"
    THEN Ret(Failure("INVALID_RESPONSE", Str(InvalidResponseMessage), details))
    ELSE LET head == MessagesHead(response) IN
         IF head.kind = "throw" THEN head
         ELSE IF head.value.code # Str("0")
         THEN Ret(Failure("FILEMAKER_ERROR", head.value.message,
                          [code |-> head.value.code] @@ details))
         ELSE IF response.response.t \in {"undefined", "null"}
         THEN Throw(CannotRead(response.response.t, "data"))
         ELSE Ret(Success(response.response.data))

findRecordsCatch(details, error) ==
    Failure("API_ERROR", Str(ErrorMessage(error)),
            details @@ [originalError |-> StringOf(error)])

findRecords(details, response) ==
    LET c == findRecordsTry(details, response) IN
    IF c.kind = "throw" THEN findRecordsCatch(details, c.error) ELSE c.value

---------------------------------------------------------------------------
(* getLayoutMetaData and abandonFileMakerToken call fetch themselves.      *)

\* `HTTPエラー! ステータス: ${response.status}`
HttpError(status) == Error("Error", "HTTP error! status: " \o status)

\* FetchJson without its `if (!response.ok) throw`: the body of an error
\* status is decoded and returned
FetchJson_NoOkCheck(outcome) ==
    CASE outcome.kind = "reject" -> Throw(FetchError)
      [] outcome.kind = "badjson" -> Throw(JsonError)
      [] OTHER -> Ret(outcome.body)

\* await fetch(...); if (!response.ok) throw ...; await response.json()
FetchJson(outcome) ==
    CASE outcome.kind = "reject" -> Throw(FetchError)
      [] outcome.kind = "status" -> Throw(HttpError(outcome.status))
      [] outcome.kind = "badjson" -> Throw(JsonError)
      [] OTHER -> Ret(outcome.body)

\* getLayoutMetaData comparing the code with != where the code has !==
getLayoutMetaDataTry_LooseCode(details, outcome) ==
    LET got == FetchJson(outcome) IN
    IF got.kind = "throw" THEN got
    ELSE LET head == MessagesHead(got.value) IN
         IF head.kind = "throw" THEN head
         ELSE IF Tmpl(head.value.code) # "0"
         THEN Ret(Failure("FILEMAKER_ERROR", head.value.message,
                          [code |-> head.value.code] @@ details))
         ELSE Ret(Success(got.value))

\* getLayoutMetaData returning { response: data.response } where the code
\* returns data
getLayoutMetaDataTry_ResponseOnly(details, outcome) ==
    LET got == FetchJson(outcome) IN
    IF got.kind = "throw" THEN got
    ELSE LET head == MessagesHead(got.value) IN
         IF head.kind = "throw" THEN head
         ELSE IF head.value.code # Str("0")
         THEN Ret(Failure("FILEMAKER_ERROR", head.value.message,
                          [code |-> head.value.code] @@ details))
         ELSE Ret(Success(ObjectBody(NoMessages, got.value.response)))

getLayoutMetaDataTry(details, outcome) ==
    LET got == FetchJson(outcome) IN
    IF got.kind = "throw" THEN got
    ELSE LET head == MessagesHead(got.value) IN
         IF head.kind = "throw" THEN head
         ELSE IF head.value.code # Str("0")
         THEN Ret(Failure("FILEMAKER_ERROR", head.value.message,
                          [code |-> head.value.code] @@ details))
         ELSE Ret(Success(got.value))

getLayoutMetaDataCatch(details, error) ==
    Failure("API_ERROR", Str(ErrorMessage(error)),
            details @@ [originalError |-> StringOf(error)])

getLayoutMetaData(details, outcome) ==
    LET c == getLayoutMetaDataTry(details, outcome) IN
    IF c.kind = "throw" THEN getLayoutMetaDataCatch(details, c.error)
    ELSE c.value

\* `FileMakerエラー: ${data.messages[0].message}`
FileMakerError(message) == Error("Error", "FileMaker error: " \o Tmpl(message))

\* abandonFileMakerToken with a catch block that logs and does not rethrow
abandonFileMakerToken_Swallow(outcome) == Ret(Undef)

\* abandonFileMakerToken comparing the code with != where the code has !==
abandonFileMakerToken_LooseCode(outcome) ==
    LET got == FetchJson(outcome) IN
    IF got.kind = "throw" THEN got
    ELSE LET head == MessagesHead(got.value) IN
         IF head.kind = "throw" THEN head
         ELSE IF Tmpl(head.value.code) # "0"
         THEN Throw(FileMakerError(head.value.message))
         ELSE Ret(Undef)

\* the completion of abandonFileMakerToken: its catch block rethrows
abandonFileMakerToken(outcome) ==
    LET got == FetchJson(outcome) IN
    IF got.kind = "throw" THEN got
    ELSE LET head == MessagesHead(got.value) IN
         IF head.kind = "throw" THEN head
         ELSE IF head.value.code # Str("0")
         THEN Throw(FileMakerError(head.value.message))
         ELSE Ret(Undef)

---------------------------------------------------------------------------
(* The four snapshots of the client.                                       *)
(*   part_001 : token / abandon / metadata / find, the token a parameter   *)
(*              (src/src/index.ts from line 592 is its compiled twin)      *)
(*   part_000 : find-records acquires its own token; findRecords builds    *)
(*              the query itself                                           *)
(*   index_ts : src/src/index.ts lines 1-422, find-records acquires its    *)
(*              own token; the helper builds the query                     *)
(*   index_js : src/src/index.ts lines 424-590, get-token only, no         *)
(*              isTokenResponse                                            *)

Snapshots == {"part_001", "part_000", "index_ts", "index_js"}

Guarded(s) == s # "index_js"
HelperBuildsQuery(s) == s \in {"part_001", "index_ts"}
SelfContainedFind(s) == s \in {"part_000", "index_ts"}
ExplicitCredentials(s) == s \in {"part_000", "index_js"}

ToolsOf(s) ==
    CASE s = "part_001" ->
             {"get-token", "abandon-token", "get-layout-metadata", "find-records"}
      [] s = "index_js" -> {"get-token"}
      [] OTHER -> {"get-token", "find-records"}

DEFAULT_SERVER_URL(s, env) ==
    IF s = "part_001" THEN env.FILEMAKER_SERVER_URL
    ELSE OrElse(env.FILEMAKER_SERVER_URL, Str("https://obfms.com"))

DEFAULT_DATABASE(s, env) ==
    IF s = "part_001" THEN OrElse(env.FILEMAKER_DATABASE, Str("default_database"))
    ELSE OrElse(env.FILEMAKER_DATABASE, Str(""))

DEFAULT_LAYOUT(s, env) ==
    IF s = "part_001" THEN OrElse(env.FILEMAKER_LAYOUT, Str("default_layout"))
    ELSE OrElse(env.FILEMAKER_LAYOUT, Str(""))

---------------------------------------------------------------------------
(* Arguments the tool handlers pass to the core, and the requests the      *)
(* core builds from them.                                                  *)

\* getFileMakerToken's parameters after defaults, as the get-token handler
\* (or the self-contained find-records handler) calls it
TokenArgs(s, env, params, tool) ==
    LET fileName == IF s = "part_001" THEN DEFAULT_DATABASE(s, env)
                    ELSE IF s = "index_js" THEN params.fileName
                    ELSE OrElse(params.fileName, DEFAULT_DATABASE(s, env))
        explicit == ExplicitCredentials(s) /\ tool = "get-token"
    IN  [fileName |-> fileName,
         account |->
             IF ExplicitCredentials(s)
             THEN DefaultParam(IF explicit THEN params.account ELSE Undef,
                               OrElse(env.FILEMAKER_ACCOUNT, Str("")))
             ELSE env.FILEMAKER_ACCOUNT,
         password |->
             IF ExplicitCredentials(s)
             THEN DefaultParam(IF explicit THEN params.password ELSE Undef,
                               OrElse(env.FILEMAKER_PASSWORD, Str("")))
             ELSE env.FILEMAKER_PASSWORD,
         serverUrl |->
             IF ExplicitCredentials(s)
             THEN DefaultParam(IF explicit THEN params.serverUrl ELSE Undef,
                               DEFAULT_SERVER_URL(s, env))
             ELSE DEFAULT_SERVER_URL(s, env)]

SessionsUrl(args) ==
    Tmpl(args.serverUrl) \o "/fmi/data/v1/databases/" \o Tmpl(args.fileName)
        \o "/sessions"

BasicAuth(args) ==
    "Basic " \o Base64(Tmpl(args.account) \o ":" \o Tmpl(args.password))

\* the fetch getFileMakerToken causes
TokenRequest(s, args) ==
    makeFileMakerRequestInit(
        SessionsUrl(args),
        [method |-> "POST", headers |-> ("Authorization" :> BasicAuth(args))],
        HelperBuildsQuery(s))

\* findRecords' parameters as the find-records handler calls it
FindArgs(s, env, params, token) ==
    [fieldName |-> IF s = "part_001" THEN OrElse(params.fieldName, Str(""))
                   ELSE params.fieldName,
     searchText |-> params.searchText,
     token |-> token,
     fileName |-> IF s = "part_001" THEN DEFAULT_DATABASE(s, env)
                  ELSE OrElse(params.fileName, DEFAULT_DATABASE(s, env)),
     layoutName |-> IF s = "part_001" THEN DEFAULT_LAYOUT(s, env)
                    ELSE OrElse(params.layoutName, DEFAULT_LAYOUT(s, env)),
     serverUrl |-> DEFAULT_SERVER_URL(s, env)]

FindUrl(args) ==
    Tmpl(args.serverUrl) \o "/fmi/data/v1/databases/" \o Tmpl(args.fileName)
        \o "/layouts/" \o Tmpl(args.layoutName) \o "/_find"

\* the Authorization header built from a module-level token that the first
\* caller set and later callers reuse
Bearer_Cached(token) ==
    LET holders == {q \in DOMAIN call :
                       /\ "params" \in DOMAIN call[q]
                       /\ "token" \in DOMAIN call[q].params
                       /\ call[q].params.token.t = "string"}
    IN  IF holders = {} THEN "Bearer " \o Tmpl(token)
        ELSE "Bearer " \o Tmpl(call[CHOOSE q \in holders :
                                       \A r \in holders : q <= r].params.token)

Bearer(token) == "Bearer " \o Tmpl(token)

\* the options findRecords hands to makeFileMakerRequest
FindOptions(s, args) ==
    IF HelperBuildsQuery(s)
    THEN [method |-> "POST",
          headers |-> ("Authorization" :> Bearer(args.token)),
          fieldName |-> args.fieldName,
          searchText |-> args.searchText]
    ELSE [method |-> "POST",
          headers |-> ("Authorization" :> Bearer(args.token)),
          body |-> JSONstringify(FindQuery(args.fieldName, args.searchText))]

\* the fetch findRecords causes
FindRequest(s, args) ==
    makeFileMakerRequestInit(FindUrl(args), FindOptions(s, args),
                             HelperBuildsQuery(s))

\* the details map of findRecords' failure envelopes
FindDetails(s, args) ==
    IF s = "part_000"
    THEN [serverUrl |-> args.serverUrl, fileName |-> args.fileName,
          layoutName |-> args.layoutName]
    ELSE [fileName |-> args.fileName, layoutName |-> args.layoutName]

\* getLayoutMetaData(DEFAULT_DATABASE, DEFAULT_LAYOUT, params.token)
MetaDataArgs(s, env, params) ==
    [fileName |-> DEFAULT_DATABASE(s, env),
     layoutName |-> DEFAULT_LAYOUT(s, env),
     token |-> params.token,
     serverUrl |-> DEFAULT_SERVER_URL(s, env)]

MetaDataRequest(args) ==
    [url |-> Tmpl(args.serverUrl) \o "/fmi/data/v1/databases/"
               \o Tmpl(args.fileName) \o "/layouts/" \o Tmpl(args.layoutName),
     method |-> "GET",
     headers |-> [Authorization |-> Bearer(args.token)]
                    @@ ("Content-Type" :> "application/json")]

MetaDataDetails(args) ==
    [fileName |-> args.fileName, layoutName |-> args.layoutName]

\* the DELETE sent with the token as a Bearer credential as well
AbandonRequest_Bearer(s, env, params) ==
    [url |-> Tmpl(DEFAULT_SERVER_URL(s, env)) \o "/fmi/data/v1/databases/"
               \o Tmpl(DEFAULT_DATABASE(s, env)) \o "/sessions/"
               \o Tmpl(params.token),
     method |-> "DELETE",
     headers |-> [Authorization |-> "Bearer " \o Tmpl(params.token)]
                    @@ ("Content-Type" :> "application/json")]

\* abandonFileMakerToken(DEFAULT_DATABASE, args.token)
AbandonRequest(s, env, params) ==
    [url |-> Tmpl(DEFAULT_SERVER_URL(s, env)) \o "/fmi/data/v1/databases/"
               \o Tmpl(DEFAULT_DATABASE(s, env)) \o "/sessions/"
               \o Tmpl(params.token),
     method |-> "DELETE",
     headers |-> ("Content-Type" :> "application/json")]

---------------------------------------------------------------------------
(* What the tool handlers hand back to the host.                           *)

NotCalled == [called |-> FALSE]
NoOutput == [pending |-> TRUE]
Text(x) == [text |-> x]

\* envelope.error?.message
ErrorMessageOf(envelope) ==
    IF "error" \in DOMAIN envelope THEN envelope.error.message ELSE Undef

\* tokenResponse.data?.token
TokenOf(envelope) ==
    IF "data" \in DOMAIN envelope THEN envelope.data.token ELSE Undef

\* the get-token handler's text
GetTokenText(envelope) ==
    IF ~envelope.success
    THEN Text(OrElse(ErrorMessageOf(envelope), Str("Failed to get token")))
    ELSE Text(OrElse(TokenOf(envelope), Str("")))

\* the find-records handler's text, once findRecords has returned
FindRecordsText(envelope) ==
    IF ~envelope.success
    THEN Text(OrElse(ErrorMessageOf(envelope), Str("Failed to find records")))
    ELSE Text(JSONstringify(envelope.data))

\* the six keys the get-layout-metadata handler keeps of a field
ReducedKeys == {"name", "type", "displayType", "result", "valueList", "global"}

\* the reduction with result and type taken from each other's key
ReduceField_Swapped(field) ==
    [k \in ReducedKeys |->
        LET from == CASE k = "type" -> "result"
                      [] k = "result" -> "type"
                      [] OTHER -> k
        IN  IF from \in DOMAIN field THEN field[from] ELSE Undef]

ReduceField(field) ==
    [k \in ReducedKeys |-> IF k \in DOMAIN field THEN field[k] ELSE Undef]

\* metaDataResponse.data.response.fieldMetaData.map(...), or the TypeError
FieldInfo(data) ==
    IF data.response.t \in {"undefined", "null"}
    THEN Throw(CannotRead(data.response.t, "fieldMetaData"))
    ELSE IF data.response.fieldMetaData.t = "undefined"
    THEN Throw(CannotRead("undefined", "map"))
    ELSE Ret(Array([i \in DOMAIN data.response.fieldMetaData.items |->
                       ReduceField(data.response.fieldMetaData.items[i])]))

---------------------------------------------------------------------------
(* Inputs: what the host may pass and what the server may answer.          *)

Optional(s) == {Undef, Str(""), Str(s)}

Environs ==
    {[FILEMAKER_SERVER_URL |-> u, FILEMAKER_DATABASE |-> d,
      FILEMAKER_LAYOUT |-> d, FILEMAKER_ACCOUNT |-> a,
      FILEMAKER_PASSWORD |-> a] :
        u \in {Undef, Str("https://fm.example")},
        d \in {Undef, Str("envdb")},
        a \in {Undef, Str("envuser")}}

GetTokenParams(s) ==
    CASE s = "part_001" ->
             {[fileName |-> Undef, account |-> Undef, password |-> Undef,
               serverUrl |-> Undef]}
      [] s = "index_ts" ->
             {[fileName |-> f, account |-> Undef, password |-> Undef,
               serverUrl |-> Undef] : f \in Optional("db")}
      [] s = "part_000" ->
             [fileName : Optional("db"), account : Optional("me"),
              password : Optional("pw"), serverUrl : Optional("https://arg")]
      [] OTHER ->
             [fileName : {Str(""), Str("db")}, account : Optional("me"),
              password : Optional("pw"), serverUrl : Optional("https://arg")]

FieldNames == {Str(""), Str("name")}
SearchTexts == {Str(""), Str("Tanaka")}
ParamTokens == {Str("abc"), Str("xyz")}

FindParams(s) ==
    IF SelfContainedFind(s)
    THEN [fileName : Optional("db"), layoutName : Optional("people"),
          fieldName : FieldNames, searchText : SearchTexts, token : {Undef}]
    ELSE [fileName : {Undef}, layoutName : {Undef},
          fieldName : FieldNames, searchText : SearchTexts,
          token : ParamTokens]

TokenParams == [token : ParamTokens]

SeqsUpTo(S, n) == UNION {[1..k -> S] : k \in 0..n}

Codes == {Str("0"), Str("401"), Num("0"), Undef}
MessageTexts == {Str("Record is missing"), Undef}

MessageLists ==
    {NoMessages, Array(<<>>)}
        \cup {Array(<<[code |-> c, message |-> m]>>) :
                 c \in Codes, m \in MessageTexts}

TokenObject(tk) ==
    [t |-> "object", token |-> tk, data |-> NoArray, fieldMetaData |-> NoArray]
DataObject(d) ==
    [t |-> "object", token |-> Undef, data |-> d, fieldMetaData |-> NoArray]
FieldsObject(f) ==
    [t |-> "object", token |-> Undef, data |-> NoArray, fieldMetaData |-> f]

Records == {[recordId |-> "1"], [recordId |-> "2"]}

FieldDescriptors ==
    {[name |-> Str("name"), type |-> Str("normal"),
      displayType |-> Str("editText"), result |-> Str("text"),
      valueList |-> Str("names"), global |-> Bool("false"),
      maxRepeat |-> Str("1")],
     [name |-> Str("age"), type |-> Str("normal"),
      displayType |-> Str("editText"), result |-> Str("number"),
      global |-> Bool("false")]}

TokenResponses ==
    {NoResponse, NullResponse, StringResponse}
        \cup {TokenObject(tk) : tk \in {Undef, Str("abc"), Str(""), Num("7")}}

FindResponses ==
    {NoResponse, NullResponse, DataObject(NoArray)}
        \cup {DataObject(Array(r)) : r \in SeqsUpTo(Records, MaxRecords)}

MetaDataResponses ==
    {NoResponse, NullResponse, FieldsObject(NoArray)}
        \cup {FieldsObject(Array(f)) : f \in SeqsUpTo(FieldDescriptors, MaxRecords)}

TransportFailures == {Rejected, NotOk("401"), NotOk("500"), BadJson}

Bodies(responses) ==
    {NullBody, StringBody}
        \cup {ObjectBody(m, r) : m \in MessageLists, r \in responses}

Outcomes(responses) ==
    TransportFailures \cup {Json(b) : b \in Bodies(responses)}

\* the reply to a DELETE carries no response payload
AbandonOutcomes == Outcomes({NoResponse})

---------------------------------------------------------------------------
(* The state machine.  Every invocation of a tool is a handler that runs   *)
(* to its fetch, waits for the fetch to settle, and runs on to the next    *)
(* fetch or to its end.                                                    *)

Invocations == {1}

Init ==
    /\ snapshot \in Snapshots
    /\ environ \in Environs
    /\ pc = [p \in Invocations |-> "idle"]
    /\ call = [p \in Invocations |-> NotCalled]
    /\ requests = [p \in Invocations |-> <<>>]
    /\ replies = [p \in Invocations |-> <<>>]
    /\ raised = [p \in Invocations |-> NoError]
    /\ thrown = [p \in Invocations |-> NoError]
    /\ tokenResponse = [p \in Invocations |-> NotCalled]
    /\ findResponse = [p \in Invocations |-> NotCalled]
    /\ metaDataResponse = [p \in Invocations |-> NotCalled]
    /\ output = [p \in Invocations |-> NoOutput]

\* the token findRecords is called with in invocation p
FindToken(p) ==
    IF SelfContainedFind(snapshot) THEN tokenResponse[p].data.token
    ELSE call[p].params.token

\* server.tool('get-token', ...): up to the fetch inside getFileMakerToken
GetTokenTool(p, params) ==
    /\ pc[p] = "idle"
    /\ "get-token" \in ToolsOf(snapshot)
    /\ call' = [call EXCEPT ![p] = [tool |-> "get-token", params |-> params]]
    /\ requests' = [requests EXCEPT ![p] =
           Append(@, TokenRequest(snapshot,
                         TokenArgs(snapshot, environ, params, "get-token")))]
    /\ pc' = [pc EXCEPT ![p] = "getFileMakerToken"]
    /\ UNCHANGED <<snapshot, environ, replies, raised, thrown, tokenResponse,
                   findResponse, metaDataResponse, output>>

\* server.tool('find-records', ...): up to its first fetch, which is the one
\* inside getFileMakerToken where the handler acquires its own token, and
\* the one inside findRecords otherwise
FindRecordsTool(p, params) ==
    /\ pc[p] = "idle"
    /\ "find-records" \in ToolsOf(snapshot)
    /\ call' = [call EXCEPT ![p] = [tool |-> "find-records", params |-> params]]
    /\ IF SelfContainedFind(snapshot)
       THEN /\ requests' = [requests EXCEPT ![p] =
                   Append(@, TokenRequest(snapshot,
                       TokenArgs(snapshot, environ, params, "find-records")))]
            /\ pc' = [pc EXCEPT ![p] = "getFileMakerToken"]
       ELSE /\ requests' = [requests EXCEPT ![p] =
                   Append(@, FindRequest(snapshot,
                       FindArgs(snapshot, environ, params, params.token)))]
            /\ pc' = [pc EXCEPT ![p] = "findRecords"]
    /\ UNCHANGED <<snapshot, environ, replies, raised, thrown, tokenResponse,
                   findResponse, metaDataResponse, output>>

\* server.tool('get-layout-metadata', ...): up to the fetch inside
\* getLayoutMetaData
GetLayoutMetadataTool(p, params) ==
    /\ pc[p] = "idle"
    /\ "get-layout-metadata" \in ToolsOf(snapshot)
    /\ call' = [call EXCEPT ![p] =
                   [tool |-> "get-layout-metadata", params |-> params]]
    /\ requests' = [requests EXCEPT ![p] =
           Append(@, MetaDataRequest(MetaDataArgs(snapshot, environ, params)))]
    /\ pc' = [pc EXCEPT ![p] = "getLayoutMetaData"]
    /\ UNCHANGED <<snapshot, environ, replies, raised, thrown, tokenResponse,
                   findResponse, metaDataResponse, output>>

\* server.tool('abandon-token', ...): up to the fetch inside
\* abandonFileMakerToken
AbandonTokenTool(p, params) ==
    /\ pc[p] = "idle"
    /\ "abandon-token" \in ToolsOf(snapshot)
    /\ call' = [call EXCEPT ![p] = [tool |-> "abandon-token", params |-> params]]
    /\ requests' = [requests EXCEPT ![p] =
           Append(@, AbandonRequest(snapshot, environ, params))]
    /\ pc' = [pc EXCEPT ![p] = "abandonFileMakerToken"]
    /\ UNCHANGED <<snapshot, environ, replies, raised, thrown, tokenResponse,
                   findResponse, metaDataResponse, output>>

\* TokenSettles with a find-records handler that tests !tokenResponse.success
\* only, and not the token
TokenSettles_NoTokenCheck(p, outcome) ==
    /\ pc[p] = "getFileMakerToken"
    /\ LET args == TokenArgs(snapshot, environ, call[p].params, call[p].tool)
           response == makeFileMakerRequestResult(outcome)
           c == getFileMakerTokenTry(SessionsUrl(args), response,
                                     Guarded(snapshot))
           envelope == getFileMakerToken(SessionsUrl(args), response,
                                         Guarded(snapshot))
       IN  /\ replies' = [replies EXCEPT ![p] = Append(@, outcome)]
           /\ raised' = [raised EXCEPT ![p] =
                            IF c.kind = "throw" THEN c.error ELSE @]
           /\ tokenResponse' = [tokenResponse EXCEPT ![p] = envelope]
           /\ IF call[p].tool = "get-token"
              THEN /\ output' = [output EXCEPT ![p] = GetTokenText(envelope)]
                   /\ pc' = [pc EXCEPT ![p] = "returned"]
                   /\ UNCHANGED requests
              ELSE IF ~envelope.success
              THEN /\ output' = [output EXCEPT ![p] =
                          Text(OrElse(ErrorMessageOf(envelope),
                                      Str("Failed to get token")))]
                   /\ pc' = [pc EXCEPT ![p] = "returned"]
                   /\ UNCHANGED requests
              ELSE /\ requests' = [requests EXCEPT ![p] =
                          Append(@, FindRequest(snapshot,
                              FindArgs(snapshot, environ, call[p].params,
                                       envelope.data.token)))]
                   /\ pc' = [pc EXCEPT ![p] = "findRecords"]
                   /\ UNCHANGED output
    /\ UNCHANGED <<snapshot, environ, call, thrown, findResponse,
                   metaDataResponse>>

\* the fetch of getFileMakerToken settles: getFileMakerToken returns its
\* envelope and the handler runs on
TokenSettles(p, outcome) ==
    /\ pc[p] = "getFileMakerToken"
    /\ LET args == TokenArgs(snapshot, environ, call[p].params, call[p].tool)
           response == makeFileMakerRequestResult(outcome)
           c == getFileMakerTokenTry(SessionsUrl(args), response,
                                     Guarded(snapshot))
           envelope == getFileMakerToken(SessionsUrl(args), response,
                                         Guarded(snapshot))
       IN  /\ replies' = [replies EXCEPT ![p] = Append(@, outcome)]
           /\ raised' = [raised EXCEPT ![p] =
                            IF c.kind = "throw" THEN c.error ELSE @]
           /\ tokenResponse' = [tokenResponse EXCEPT ![p] = envelope]
           /\ IF call[p].tool = "get-token"
              THEN /\ output' = [output EXCEPT ![p] = GetTokenText(envelope)]
                   /\ pc' = [pc EXCEPT ![p] = "returned"]
                   /\ UNCHANGED requests
              ELSE IF ~envelope.success \/ ~Truthy(TokenOf(envelope))
              THEN /\ output' = [output EXCEPT ![p] =
                          Text(OrElse(ErrorMessageOf(envelope),
                                      Str("Failed to get token")))]
                   /\ pc' = [pc EXCEPT ![p] = "returned"]
                   /\ UNCHANGED requests
              ELSE /\ requests' = [requests EXCEPT ![p] =
                          Append(@, FindRequest(snapshot,
                              FindArgs(snapshot, environ, call[p].params,
                                       envelope.data.token)))]
                   /\ pc' = [pc EXCEPT ![p] = "findRecords"]
                   /\ UNCHANGED output
    /\ UNCHANGED <<snapshot, environ, call, thrown, findResponse,
                   metaDataResponse>>

\* FindSettles with a find-records handler that, having acquired the token
\* itself, sends the DELETE for it (without awaiting it) before it returns
FindSettles_Release(p, outcome) ==
    /\ pc[p] = "findRecords"
    /\ LET args == FindArgs(snapshot, environ, call[p].params, FindToken(p))
           response == makeFileMakerRequestResult(outcome)
           c == findRecordsTry(FindDetails(snapshot, args), response)
           envelope == findRecords(FindDetails(snapshot, args), response)
       IN  /\ replies' = [replies EXCEPT ![p] = Append(@, outcome)]
           /\ raised' = [raised EXCEPT ![p] =
                            IF c.kind = "throw" THEN c.error ELSE @]
           /\ findResponse' = [findResponse EXCEPT ![p] = envelope]
           /\ output' = [output EXCEPT ![p] = FindRecordsText(envelope)]
           /\ requests' = [requests EXCEPT ![p] =
                  IF SelfContainedFind(snapshot)
                  THEN Append(@, [url |-> SessionsUrl(args) \o "/"
                                            \o Tmpl(FindToken(p)),
                                  method |-> "DELETE",
                                  headers |-> ("Content-Type"
                                                  :> "application/json")])
                  ELSE @]
           /\ pc' = [pc EXCEPT ![p] = "returned"]
    /\ UNCHANGED <<snapshot, environ, call, thrown, tokenResponse,
                   metaDataResponse>>

\* the fetch of findRecords settles: findRecords returns its envelope and
\* the find-records handler returns its text
FindSettles(p, outcome) ==
    /\ pc[p] = "findRecords"
    /\ LET args == FindArgs(snapshot, environ, call[p].params, FindToken(p))
           response == makeFileMakerRequestResult(outcome)
           c == findRecordsTry(FindDetails(snapshot, args), response)
           envelope == findRecords(FindDetails(snapshot, args), response)
       IN  /\ replies' = [replies EXCEPT ![p] = Append(@, outcome)]
           /\ raised' = [raised EXCEPT ![p] =
                            IF c.kind = "throw" THEN c.error ELSE @]
           /\ findResponse' = [findResponse EXCEPT ![p] = envelope]
           /\ output' = [output EXCEPT ![p] = FindRecordsText(envelope)]
           /\ pc' = [pc EXCEPT ![p] = "returned"]
    /\ UNCHANGED <<snapshot, environ, call, requests, thrown, tokenResponse,
                   metaDataResponse>>

\* the fetch of getLayoutMetaData settles: getLayoutMetaData returns its
\* envelope and the get-layout-metadata handler reduces the fields
MetaDataSettles(p, outcome) ==
    /\ pc[p] = "getLayoutMetaData"
    /\ LET args == MetaDataArgs(snapshot, environ, call[p].params)
           c == getLayoutMetaDataTry(MetaDataDetails(args), outcome)
           envelope == getLayoutMetaData(MetaDataDetails(args), outcome)
       IN  /\ replies' = [replies EXCEPT ![p] = Append(@, outcome)]
           /\ raised' = [raised EXCEPT ![p] =
                            IF c.kind = "throw" THEN c.error ELSE @]
           /\ metaDataResponse' = [metaDataResponse EXCEPT ![p] = envelope]
           /\ IF ~envelope.success \/ envelope.data.t = "null"
              THEN /\ output' = [output EXCEPT ![p] =
                          Text(OrElse(ErrorMessageOf(envelope),
                                      Str("Failed to get metadata")))]
                   /\ pc' = [pc EXCEPT ![p] = "returned"]
                   /\ UNCHANGED thrown
              ELSE LET fieldInfo == FieldInfo(envelope.data) IN
                   IF fieldInfo.kind = "throw"
                   THEN /\ thrown' = [thrown EXCEPT ![p] = fieldInfo.error]
                        /\ pc' = [pc EXCEPT ![p] = "threw"]
                        /\ UNCHANGED output
                   ELSE /\ output' = [output EXCEPT ![p] =
                               Text(JSONstringify(fieldInfo.value))]
                        /\ pc' = [pc EXCEPT ![p] = "returned"]
                        /\ UNCHANGED thrown
    /\ UNCHANGED <<snapshot, environ, call, requests, tokenResponse,
                   findResponse>>

\* the fetch of abandonFileMakerToken settles: abandonFileMakerToken
\* returns or rethrows, and the abandon-token handler with it
AbandonSettles(p, outcome) ==
    /\ pc[p] = "abandonFileMakerToken"
    /\ LET c == abandonFileMakerToken(outcome)
       IN  /\ replies' = [replies EXCEPT ![p] = Append(@, outcome)]
           /\ IF c.kind = "throw"
              THEN /\ raised' = [raised EXCEPT ![p] = c.error]
                   /\ thrown' = [thrown EXCEPT ![p] = c.error]
                   /\ pc' = [pc EXCEPT ![p] = "threw"]
                   /\ UNCHANGED output
              ELSE /\ output' = [output EXCEPT ![p] =
                          Text(Str("Token abandoned successfully"))]
                   /\ pc' = [pc EXCEPT ![p] = "returned"]
                   /\ UNCHANGED <<raised, thrown>>
    /\ UNCHANGED <<snapshot, environ, call, requests, tokenResponse,
                   findResponse, metaDataResponse>>

TokenOutcomes == Outcomes(TokenResponses)
FindOutcomes == Outcomes(FindResponses)
MetaDataOutcomes == Outcomes(MetaDataResponses)

GetToken(p) ==
    /\ pc[p] = "idle"
    /\ \E params \in GetTokenParams(snapshot) : GetTokenTool(p, params)

FindRecords(p) ==
    /\ pc[p] = "idle"
    /\ \E params \in FindParams(snapshot) : FindRecordsTool(p, params)

GetLayoutMetadata(p) ==
    /\ pc[p] = "idle"
    /\ \E params \in TokenParams : GetLayoutMetadataTool(p, params)

AbandonToken(p) ==
    /\ pc[p] = "idle"
    /\ \E params \in TokenParams : AbandonTokenTool(p, params)

TokenFetch(p) ==
    /\ pc[p] = "getFileMakerToken"
    /\ \E outcome \in TokenOutcomes : TokenSettles(p, outcome)

FindFetch(p) ==
    /\ pc[p] = "findRecords"
    /\ \E outcome \in FindOutcomes : FindSettles(p, outcome)

MetaDataFetch(p) ==
    /\ pc[p] = "getLayoutMetaData"
    /\ \E outcome \in MetaDataOutcomes : MetaDataSettles(p, outcome)

AbandonFetch(p) ==
    /\ pc[p] = "abandonFileMakerToken"
    /\ \E outcome \in AbandonOutcomes : AbandonSettles(p, outcome)

Next ==
    \E p \in Invocations :
        \/ GetToken(p)
        \/ FindRecords(p)
        \/ GetLayoutMetadata(p)
        \/ AbandonToken(p)
        \/ TokenFetch(p)
        \/ FindFetch(p)
        \/ MetaDataFetch(p)
        \/ AbandonFetch(p)

Spec == Init /\ [][Next]_vars

---------------------------------------------------------------------------
(* Concurrent invocations.  The handlers are async functions on one event  *)
(* loop: each runs from one await to the next without interruption, and    *)
(* the handlers in flight interleave at their awaits.  The inputs are      *)
(* fewer than above: invocations that differ in their token or database,   *)
(* and a failure, a server error and a success as replies.                 *)

ConcInvocations == 1..Concurrent

\* nothing set, or everything set
ConcEnvirons ==
    {env \in Environs :
        /\ (env.FILEMAKER_SERVER_URL = Undef) = (env.FILEMAKER_DATABASE = Undef)
        /\ (env.FILEMAKER_DATABASE = Undef) = (env.FILEMAKER_ACCOUNT = Undef)}

ConcGetTokenParams(s) ==
    {params \in GetTokenParams(s) :
        /\ params.fileName \in {Undef, Str("db")}
        /\ params.account = Undef
        /\ params.password = Undef
        /\ params.serverUrl = Undef}
        \cup {params \in GetTokenParams(s) :
                 /\ params.fileName = Str("db")
                 /\ params.account = Str("me")
                 /\ params.password = Str("pw")
                 /\ params.serverUrl = Str("https://arg")}

ConcFindParams(s) ==
    {params \in FindParams(s) :
        /\ params.fieldName = Str("name")
        /\ params.searchText = Str("Tanaka")
        /\ params.layoutName = Undef
        /\ params.fileName \in {Undef, Str("db")}}

ConcMessages(code) ==
    Array(<<[code |-> Str(code), message |-> Str("Record is missing")]>>)

ConcOutcomes(responses) ==
    {Rejected, Json(ObjectBody(ConcMessages("401"), NoResponse))}
        \cup {Json(ObjectBody(ConcMessages("0"), r)) : r \in responses}

ConcTokenOutcomes ==
    ConcOutcomes({TokenObject(Str("abc")), TokenObject(Str("xyz"))})
ConcFindOutcomes ==
    ConcOutcomes({DataObject(Array(<<[recordId |-> "1"]>>))})
ConcMetaDataOutcomes ==
    ConcOutcomes({FieldsObject(Array(<<f>>)) :
                     f \in {g \in FieldDescriptors : g.name = Str("age")}})
ConcAbandonOutcomes == ConcOutcomes({NoResponse})

ConcInit ==
    /\ snapshot \in Snapshots
    /\ environ \in ConcEnvirons
    /\ pc = [p \in ConcInvocations |-> "idle"]
    /\ call = [p \in ConcInvocations |-> NotCalled]
    /\ requests = [p \in ConcInvocations |-> <<>>]
    /\ replies = [p \in ConcInvocations |-> <<>>]
    /\ raised = [p \in ConcInvocations |-> NoError]
    /\ thrown = [p \in ConcInvocations |-> NoError]
    /\ tokenResponse = [p \in ConcInvocations |-> NotCalled]
    /\ findResponse = [p \in ConcInvocations |-> NotCalled]
    /\ metaDataResponse = [p \in ConcInvocations |-> NotCalled]
    /\ output = [p \in ConcInvocations |-> NoOutput]

ConcGetToken(p) ==
    /\ pc[p] = "idle"
    /\ \E params \in ConcGetTokenParams(snapshot) : GetTokenTool(p, params)

ConcFindRecords(p) ==
    /\ pc[p] = "idle"
    /\ \E params \in ConcFindParams(snapshot) : FindRecordsTool(p, params)

ConcGetLayoutMetadata(p) ==
    /\ pc[p] = "idle"
    /\ \E params \in TokenParams : GetLayoutMetadataTool(p, params)

ConcAbandonToken(p) ==
    /\ pc[p] = "idle"
    /\ \E params \in TokenParams : AbandonTokenTool(p, params)

ConcTokenFetch(p) ==
    /\ pc[p] = "getFileMakerToken"
    /\ \E outcome \in ConcTokenOutcomes : TokenSettles(p, outcome)

ConcFindFetch(p) ==
    /\ pc[p] = "findRecords"
    /\ \E outcome \in ConcFindOutcomes : FindSettles(p, outcome)

ConcMetaDataFetch(p) ==
    /\ pc[p] = "getLayoutMetaData"
    /\ \E outcome \in ConcMetaDataOutcomes : MetaDataSettles(p, outcome)

ConcAbandonFetch(p) ==
    /\ pc[p] = "abandonFileMakerToken"
    /\ \E outcome \in ConcAbandonOutcomes : AbandonSettles(p, outcome)

ConcNext ==
    \E p \in ConcInvocations :
        \/ ConcGetToken(p)
        \/ ConcFindRecords(p)
        \/ ConcGetLayoutMetadata(p)
        \/ ConcAbandonToken(p)
        \/ ConcTokenFetch(p)
        \/ ConcFindFetch(p)
        \/ ConcMetaDataFetch(p)
        \/ ConcAbandonFetch(p)

ConcSpec == ConcInit /\ [][ConcNext]_vars

---------------------------------------------------------------------------
(* Reading the history of an invocation.                                   *)

Called(envelope) == "success" \in DOMAIN envelope

\* how the fetch of each core operation settled
TokenReplyOf(p) == replies[p][1]
FindReplyOf(p) == replies[p][Len(replies[p])]
MetaDataReplyOf(p) == replies[p][1]
AbandonReplyOf(p) == replies[p][1]

\* the reply was decoded and its body has a messages[0]
HasHead(reply) ==
    /\ reply.kind = "json"
    /\ reply.body.t = "object"
    /\ reply.body.messages.t = "array"
    /\ Len(reply.body.messages.items) > 0

HeadOf(reply) == reply.body.messages.items[1]

TransportFailed(reply) == reply.kind \in {"reject", "status", "badjson"}

IsFailure(envelope, types) ==
    /\ ~envelope.success
    /\ "error" \in DOMAIN envelope
    /\ envelope.error.type \in types

\* a FILEMAKER_ERROR failure that carries the server's message and code
CarriesServerError(envelope, m) ==
    /\ IsFailure(envelope, {"FILEMAKER_ERROR"})
    /\ envelope.error.message = m.message
    /\ envelope.error.details.code = m.code

NonZero(reply) == HasHead(reply) /\ HeadOf(reply).code # Str("0")

---------------------------------------------------------------------------
(* The claims.                                                             *)

\* C1 (as stated): for every decoded reply whose messages[0].code is not "0",
\* getFileMakerToken, findRecords and getLayoutMetaData each return a
\* FILEMAKER_ERROR failure carrying the server's message and code.
C1_Original ==
    \A p \in Invocations :
        /\ (Called(tokenResponse[p]) /\ NonZero(TokenReplyOf(p)))
               => CarriesServerError(tokenResponse[p], HeadOf(TokenReplyOf(p)))
        /\ (Called(findResponse[p]) /\ NonZero(FindReplyOf(p)))
               => CarriesServerError(findResponse[p], HeadOf(FindReplyOf(p)))
        /\ (Called(metaDataResponse[p]) /\ NonZero(MetaDataReplyOf(p)))
               => CarriesServerError(metaDataResponse[p],
                                     HeadOf(MetaDataReplyOf(p)))

\* C1 (amended): findRecords and getLayoutMetaData return FILEMAKER_ERROR with
\* the server's message and code for every decoded reply whose
\* messages[0].code is not "0"; getFileMakerToken does so when the reply also
\* passes the snapshot's shape check, and where the snapshot checks the
\* {response:{token:string}} shape a reply that lacks it yields
\* INVALID_RESPONSE whatever its code.
C1_NonZeroCodeIsFileMakerError ==
    \A p \in Invocations :
        /\ (Called(tokenResponse[p]) /\ NonZero(TokenReplyOf(p)))
               => IF Guarded(snapshot) /\ ~isTokenResponse(TokenReplyOf(p).body)
                  THEN IsFailure(tokenResponse[p], {"INVALID_RESPONSE"})
                  ELSE CarriesServerError(tokenResponse[p],
                                          HeadOf(TokenReplyOf(p)))
        /\ (Called(findResponse[p]) /\ NonZero(FindReplyOf(p)))
               => CarriesServerError(findResponse[p], HeadOf(FindReplyOf(p)))
        /\ (Called(metaDataResponse[p]) /\ NonZero(MetaDataReplyOf(p)))
               => CarriesServerError(metaDataResponse[p],
                                     HeadOf(MetaDataReplyOf(p)))

\* a token reply of the right shape with code "401" became FILEMAKER_ERROR in
\* a snapshot that checks the shape
C1_Witness ==
    \E p \in Invocations :
        /\ Guarded(snapshot)
        /\ Called(tokenResponse[p])
        /\ NonZero(TokenReplyOf(p))
        /\ HeadOf(TokenReplyOf(p)).code = Str("401")
        /\ isTokenResponse(TokenReplyOf(p).body)
        /\ IsFailure(tokenResponse[p], {"FILEMAKER_ERROR"})

\* C2: on a transport failure (network error, non-2xx status, JSON-decode
\* failure) makeFileMakerRequest returns null, getFileMakerToken, findRecords
\* and getLayoutMetaData return an API_ERROR or INVALID_RESPONSE failure, and
\* nothing is thrown to the caller.
C2_TransportFailureIsEnvelope ==
    \A p \in Invocations :
        /\ (Called(tokenResponse[p]) /\ TransportFailed(TokenReplyOf(p)))
               => /\ makeFileMakerRequestResult(TokenReplyOf(p)) = NullBody
                  /\ IsFailure(tokenResponse[p], {"API_ERROR", "INVALID_RESPONSE"})
                  /\ pc[p] = "returned"
        /\ (Called(findResponse[p]) /\ TransportFailed(FindReplyOf(p)))
               => /\ makeFileMakerRequestResult(FindReplyOf(p)) = NullBody
                  /\ IsFailure(findResponse[p], {"API_ERROR", "INVALID_RESPONSE"})
                  /\ pc[p] = "returned"
        /\ (Called(metaDataResponse[p]) /\ TransportFailed(MetaDataReplyOf(p)))
               => /\ IsFailure(metaDataResponse[p],
                              {"API_ERROR", "INVALID_RESPONSE"})
                  /\ pc[p] = "returned"
        /\ (Len(replies[p]) > 0 /\ TransportFailed(replies[p][Len(replies[p])])
              /\ call[p].tool # "abandon-token")
               => pc[p] = "returned"

\* a find whose fetch resolved with a status that is not ok
C2_Witness ==
    \E p \in Invocations :
        /\ Called(findResponse[p])
        /\ FindReplyOf(p).kind = "status"
        /\ ~findResponse[p].success

\* C3: abandonFileMakerToken throws whenever the decoded reply's
\* messages[0].code is not "0", and returns normally, with no value, when
\* the HTTP call succeeded and the code is "0".
C3_AbandonThrowsOnNonZero ==
    \A p \in Invocations :
        (pc[p] \in {"returned", "threw"} /\ call[p].tool = "abandon-token")
            => /\ NonZero(AbandonReplyOf(p))
                      => /\ pc[p] = "threw"
                         /\ thrown[p].isError
                         /\ output[p] = NoOutput
               /\ (HasHead(AbandonReplyOf(p))
                     /\ HeadOf(AbandonReplyOf(p)).code = Str("0"))
                      => /\ pc[p] = "returned"
                         /\ thrown[p] = NoError
                         /\ abandonFileMakerToken(AbandonReplyOf(p)) = Ret(Undef)

\* a release answered with code "401" has thrown
C3_Witness ==
    \E p \in Invocations :
        /\ pc[p] = "threw"
        /\ call[p].tool = "abandon-token"
        /\ NonZero(AbandonReplyOf(p))
        /\ HeadOf(AbandonReplyOf(p)).code = Str("401")

\* findRecords has been entered in invocation p: its fetch is issued
FindIssued(p) == pc[p] = "findRecords" \/ Called(findResponse[p])

\* the fetch findRecords issued, and the arguments findRecords was called with
FindRequestOf(p) == requests[p][Len(requests[p])]
FindArgsOf(p) == FindArgs(snapshot, environ, call[p].params, FindToken(p))

\* C4 (as stated): for every field name f and search text s passed to
\* findRecords, the POST to _find carries exactly {query:[{f: "=" + s}]}.
C4_Original ==
    \A p \in Invocations :
        FindIssued(p)
            => /\ "body" \in DOMAIN FindRequestOf(p)
               /\ FindRequestOf(p).body =
                      [json |-> [query |->
                          << (FindArgsOf(p).fieldName.v
                                 :> ("=" \o FindArgsOf(p).searchText.v)) >>]]

\* C5 (as stated): every find request findRecords dispatches carries a query
\* with at least one field/value pair for the searched field, also for an
\* empty search text or an empty field name.
C5_Original ==
    \A p \in Invocations :
        FindIssued(p)
            => /\ "body" \in DOMAIN FindRequestOf(p)
               /\ Len(FindRequestOf(p).body.json.query) >= 1
               /\ FindArgsOf(p).fieldName.v
                      \in DOMAIN FindRequestOf(p).body.json.query[1]

\* a success envelope has a defined payload, a failure envelope a defined
\* message
WellFormed(envelope) ==
    IF envelope.success
    THEN "data" \in DOMAIN envelope /\ envelope.data.t # "undefined"
    ELSE /\ "error" \in DOMAIN envelope
         /\ envelope.error.message.t # "undefined"

\* C6 (as stated): every envelope getFileMakerToken, findRecords or
\* getLayoutMetaData returns has a defined payload when success is true and
\* a defined error.message when success is false.
C6_Original ==
    \A p \in Invocations :
        /\ Called(tokenResponse[p])
               => IF tokenResponse[p].success
                  THEN "data" \in DOMAIN tokenResponse[p]
                  ELSE WellFormed(tokenResponse[p])
        /\ Called(findResponse[p]) => WellFormed(findResponse[p])
        /\ Called(metaDataResponse[p]) => WellFormed(metaDataResponse[p])

ZeroCode(reply) == HasHead(reply) /\ HeadOf(reply).code = Str("0")

\* C7: getFileMakerToken, findRecords and getLayoutMetaData return success
\* only for a decoded reply whose messages[0].code is the string "0".
C7_SuccessOnlyOnCodeZero ==
    \A p \in Invocations :
        /\ (Called(tokenResponse[p]) /\ tokenResponse[p].success)
               => ZeroCode(TokenReplyOf(p))
        /\ (Called(findResponse[p]) /\ findResponse[p].success)
               => ZeroCode(FindReplyOf(p))
        /\ (Called(metaDataResponse[p]) /\ metaDataResponse[p].success)
               => ZeroCode(MetaDataReplyOf(p))

\* an HTTP 200 metadata reply whose code is the number 0, not the string "0",
\* was not reported as success
C7_Witness ==
    \E p \in Invocations :
        /\ Called(metaDataResponse[p])
        /\ HasHead(MetaDataReplyOf(p))
        /\ HeadOf(MetaDataReplyOf(p)).code = Num("0")
        /\ ~metaDataResponse[p].success

\* C8 (as stated): when no response object is obtained from the server,
\* acquire-token, find and metadata each return INVALID_RESPONSE, and
\* acquire-token's details carry the attempted URL.
C8_Original ==
    \A p \in Invocations :
        /\ (Called(tokenResponse[p]) /\ TransportFailed(TokenReplyOf(p)))
               => /\ IsFailure(tokenResponse[p], {"INVALID_RESPONSE"})
                  /\ tokenResponse[p].error.details.url = requests[p][1].url
        /\ (Called(findResponse[p]) /\ TransportFailed(FindReplyOf(p)))
               => IsFailure(findResponse[p], {"INVALID_RESPONSE"})
        /\ (Called(metaDataResponse[p]) /\ TransportFailed(MetaDataReplyOf(p)))
               => IsFailure(metaDataResponse[p], {"INVALID_RESPONSE"})

\* the {response:{token:string}} shape
HasTokenShape(body) ==
    /\ body.t = "object"
    /\ body.response.t = "object"
    /\ body.response.token.t = "string"

\* C9 (as stated): acquire-token returns INVALID_RESPONSE for every decoded
\* reply that lacks the {response:{token:string}} shape, and never returns
\* success with a token that is not a string.
C9_Original ==
    \A p \in Invocations :
        Called(tokenResponse[p])
            => /\ (TokenReplyOf(p).kind = "json"
                     /\ ~HasTokenShape(TokenReplyOf(p).body))
                      => IsFailure(tokenResponse[p], {"INVALID_RESPONSE"})
               /\ tokenResponse[p].success
                      => tokenResponse[p].data.token.t = "string"

\* the envelope of the core operation that ran last in invocation p
LastEnvelope(p) ==
    IF Called(findResponse[p]) THEN findResponse[p]
    ELSE IF Called(metaDataResponse[p]) THEN metaDataResponse[p]
    ELSE tokenResponse[p]

\* the decoded body has no messages[0] to read the code from
NoHead(reply) ==
    /\ reply.kind = "json"
    /\ reply.body.t # "null"
    /\ \/ reply.body.messages.t = "undefined"
       \/ Len(reply.body.messages.items) = 0

\* C10: an exception raised inside getFileMakerToken, findRecords or
\* getLayoutMetaData is caught and returned as an API_ERROR failure whose
\* message is the error's message and whose details.originalError is the
\* stringified error; reading messages[0].code of a decoded body without a
\* messages[0] is such an exception.
C10_ExceptionIsApiError ==
    \A p \in Invocations :
        /\ (Called(LastEnvelope(p)) /\ raised[p] # NoError)
               => /\ IsFailure(LastEnvelope(p), {"API_ERROR"})
                  /\ LastEnvelope(p).error.message = Str(raised[p].message)
                  /\ LastEnvelope(p).error.details.originalError
                         = raised[p].name \o ": " \o raised[p].message
        /\ (Called(findResponse[p]) /\ NoHead(FindReplyOf(p)))
               => /\ raised[p].name = "TypeError"
                  /\ IsFailure(findResponse[p], {"API_ERROR"})
        /\ (Called(metaDataResponse[p]) /\ NoHead(MetaDataReplyOf(p)))
               => /\ raised[p].name = "TypeError"
                  /\ IsFailure(metaDataResponse[p], {"API_ERROR"})
        /\ (Called(tokenResponse[p]) /\ NoHead(TokenReplyOf(p))
              /\ (Guarded(snapshot) => isTokenResponse(TokenReplyOf(p).body)))
               => /\ raised[p].name = "TypeError"
                  /\ IsFailure(tokenResponse[p], {"API_ERROR"})

\* a find reply with an empty messages array came back as API_ERROR
C10_Witness ==
    \E p \in Invocations :
        /\ Called(findResponse[p])
        /\ FindReplyOf(p).kind = "json"
        /\ FindReplyOf(p).body.messages = Array(<<>>)
        /\ raised[p] = CannotRead("undefined", "code")
        /\ IsFailure(findResponse[p], {"API_ERROR"})

\* the fetch rejected: no HTTP response arrived
NetworkFailed(reply) == reply.kind = "reject"

\* C11 (as stated): a network failure during acquire-token, find or metadata
\* is classified as API_ERROR, and INVALID_RESPONSE is returned only for a
\* malformed or absent server reply, never for a network failure.
C11_Original ==
    \A p \in Invocations :
        /\ (Called(tokenResponse[p]) /\ NetworkFailed(TokenReplyOf(p)))
               => IsFailure(tokenResponse[p], {"API_ERROR"})
        /\ (Called(findResponse[p]) /\ NetworkFailed(FindReplyOf(p)))
               => IsFailure(findResponse[p], {"API_ERROR"})
        /\ (Called(metaDataResponse[p]) /\ NetworkFailed(MetaDataReplyOf(p)))
               => IsFailure(metaDataResponse[p], {"API_ERROR"})

\* the exception a transport failure raises where fetch is called directly
TransportError(reply) ==
    CASE reply.kind = "reject" -> FetchError
      [] reply.kind = "status" -> HttpError(reply.status)
      [] OTHER -> JsonError

\* C12: on a network error, a non-2xx status or a JSON-decode failure
\* abandonFileMakerToken raises that exception to its caller and the
\* abandon-token handler hands no text to the host; getFileMakerToken,
\* findRecords and getLayoutMetaData return an envelope however their fetch
\* settles, so an exception escapes an invocation only from
\* abandonFileMakerToken or, after getLayoutMetaData has returned, from the
\* get-layout-metadata handler itself.
C12_ReleasePropagates ==
    \A p \in Invocations :
        /\ (pc[p] \in {"returned", "threw"} /\ call[p].tool = "abandon-token"
              /\ TransportFailed(AbandonReplyOf(p)))
               => /\ pc[p] = "threw"
                  /\ thrown[p] = TransportError(AbandonReplyOf(p))
                  /\ abandonFileMakerToken(AbandonReplyOf(p))
                         = Throw(thrown[p])
                  /\ output[p] = NoOutput
        /\ (pc[p] \in {"returned", "threw"} /\ call[p].tool # "abandon-token")
               => /\ Called(LastEnvelope(p))
                  /\ call[p].tool = "get-token" => Called(tokenResponse[p])
                  /\ call[p].tool = "find-records"
                         => \/ Called(findResponse[p])
                            \/ /\ SelfContainedFind(snapshot)
                               /\ Called(tokenResponse[p])
                  /\ call[p].tool = "get-layout-metadata"
                         => Called(metaDataResponse[p])
        /\ pc[p] = "threw"
               => \/ call[p].tool = "abandon-token"
                  \/ /\ call[p].tool = "get-layout-metadata"
                     /\ metaDataResponse[p].success

\* a release whose fetch resolved with status 500 has thrown the HTTP error
C12_Witness ==
    \E p \in Invocations :
        /\ pc[p] = "threw"
        /\ call[p].tool = "abandon-token"
        /\ AbandonReplyOf(p) = NotOk("500")
        /\ thrown[p] = HttpError("500")

\* C13: for a decoded reply {response:{token:t}, messages:[{code:"0"}]}
\* with t a string, getFileMakerToken returns {success:true, data:{token:t}}
\* with t unchanged.
C13_TokenRoundTrip ==
    \A p \in Invocations :
        (Called(tokenResponse[p]) /\ TokenReplyOf(p).kind = "json"
           /\ HasTokenShape(TokenReplyOf(p).body) /\ ZeroCode(TokenReplyOf(p)))
            => /\ tokenResponse[p]
                      = [success |-> TRUE,
                         data |-> [token |-> TokenReplyOf(p).body.response.token]]
               /\ tokenResponse[p].data.token.t = "string"

\* the server's token "abc" came back as the payload of a success envelope
C13_Witness ==
    \E p \in Invocations :
        /\ Called(tokenResponse[p])
        /\ ZeroCode(TokenReplyOf(p))
        /\ TokenReplyOf(p).body.response = TokenObject(Str("abc"))
        /\ tokenResponse[p].success
        /\ tokenResponse[p].data.token = Str("abc")

\* the decoded reply carries a response.data list
HasDataList(reply) ==
    /\ reply.kind = "json"
    /\ reply.body.t = "object"
    /\ reply.body.response.t = "object"
    /\ reply.body.response.data.t = "array"

\* C14: for a decoded find reply with embedded code "0" that carries a
\* response.data list, findRecords returns {success:true, data:D} where D is
\* exactly that list: the same records in the same order, nothing filtered,
\* reshaped or cut.
C14_FindDataUnmodified ==
    \A p \in Invocations :
        (Called(findResponse[p]) /\ ZeroCode(FindReplyOf(p))
           /\ HasDataList(FindReplyOf(p)))
            => /\ findResponse[p]
                      = [success |-> TRUE,
                         data |-> FindReplyOf(p).body.response.data]
               /\ Len(findResponse[p].data.items)
                      = Len(FindReplyOf(p).body.response.data.items)
               /\ \A i \in 1..Len(findResponse[p].data.items) :
                      findResponse[p].data.items[i]
                          = FindReplyOf(p).body.response.data.items[i]

\* the two records the server sent, record 2 first, came back in that order
C14_Witness ==
    \E p \in Invocations :
        /\ Called(findResponse[p])
        /\ ZeroCode(FindReplyOf(p))
        /\ HasDataList(FindReplyOf(p))
        /\ FindReplyOf(p).body.response.data.items
               = <<[recordId |-> "2"], [recordId |-> "1"]>>
        /\ findResponse[p].success
        /\ findResponse[p].data.items
               = <<[recordId |-> "2"], [recordId |-> "1"]>>

\* C15 (as stated): every tool handler (get-token, abandon-token,
\* get-layout-metadata, find-records) issues at most one HTTP request per
\* invocation.
C15_Original ==
    \A p \in Invocations : Len(requests[p]) <= 1

\* the first fetch of an invocation, from the tool and params of that
\* invocation alone
FirstRequestFor(c) ==
    CASE c.tool = "get-token" ->
             TokenRequest(snapshot, TokenArgs(snapshot, environ, c.params, c.tool))
      [] c.tool = "find-records" /\ SelfContainedFind(snapshot) ->
             TokenRequest(snapshot, TokenArgs(snapshot, environ, c.params, c.tool))
      [] c.tool = "find-records" /\ ~SelfContainedFind(snapshot) ->
             FindRequest(snapshot,
                         FindArgs(snapshot, environ, c.params, c.params.token))
      [] c.tool = "get-layout-metadata" ->
             MetaDataRequest(MetaDataArgs(snapshot, environ, c.params))
      [] OTHER -> AbandonRequest(snapshot, environ, c.params)

\* the token invocation p was given: its own params.token, or the token in
\* the reply to its own login
OwnToken(p) ==
    IF SelfContainedFind(snapshot) THEN TokenReplyOf(p).body.response.token
    ELSE call[p].params.token

\* what invocation p sent and got is a function of its own params and of the
\* replies to its own fetches
OwnArgumentsOnly(p) ==
    /\ Len(requests[p]) >= 1
    /\ requests[p][1] = FirstRequestFor(call[p])
    /\ (call[p].tool \in {"find-records", "get-layout-metadata"}
          /\ (SelfContainedFind(snapshot) => Len(requests[p]) = 2))
           => /\ FindRequestOf(p).headers["Authorization"]
                     = "Bearer " \o OwnToken(p).v
              /\ \A q \in DOMAIN call \ {p} :
                     (/\ "tool" \in DOMAIN call[q] /\ call[q].tool = call[p].tool
                      /\ Len(requests[q]) = Len(requests[p])
                      /\ OwnToken(q) # OwnToken(p))
                         => requests[q][Len(requests[q])].headers["Authorization"]
                                # FindRequestOf(p).headers["Authorization"]
    /\ Len(requests[p]) = 2
           => requests[p][2] =
                  FindRequest(snapshot,
                              FindArgs(snapshot, environ, call[p].params,
                                       OwnToken(p)))
    /\ Called(tokenResponse[p])
           => tokenResponse[p] =
                  getFileMakerToken(
                      SessionsUrl(TokenArgs(snapshot, environ, call[p].params,
                                            call[p].tool)),
                      makeFileMakerRequestResult(TokenReplyOf(p)),
                      Guarded(snapshot))
    /\ Called(findResponse[p])
           => findResponse[p] =
                  findRecords(FindDetails(snapshot, FindArgsOf(p)),
                              makeFileMakerRequestResult(FindReplyOf(p)))
    /\ Called(metaDataResponse[p])
           => metaDataResponse[p] =
                  getLayoutMetaData(
                      MetaDataDetails(MetaDataArgs(snapshot, environ,
                                                   call[p].params)),
                      MetaDataReplyOf(p))

\* C16: in every interleaving of concurrent invocations, the request each
\* one sends (URL, Authorization header, body) and the envelope each one
\* returns are determined by its own arguments and the server's replies to
\* it: two invocations with the same arguments and replies send and return
\* the same, and an invocation never sends another invocation's token.
C16_NoCrossCallState ==
    \A p \in DOMAIN call :
        "tool" \in DOMAIN call[p]
            => /\ OwnArgumentsOnly(p)
               /\ \A q \in DOMAIN call :
                      (call[q] = call[p] /\ replies[q] = replies[p])
                          => /\ requests[q] = requests[p]
                             /\ tokenResponse[q] = tokenResponse[p]
                             /\ findResponse[q] = findResponse[p]
                             /\ metaDataResponse[q] = metaDataResponse[p]
                             /\ output[q] = output[p]
                             /\ pc[q] = pc[p]

\* two findRecords calls in flight at once with different tokens, each
\* request carrying its own token
C16_Witness ==
    \E p, q \in DOMAIN call :
        /\ p # q
        /\ pc[p] = "findRecords"
        /\ pc[q] = "findRecords"
        /\ OwnToken(p) = Str("abc")
        /\ OwnToken(q) = Str("xyz")
        /\ FindRequestOf(p).headers["Authorization"] = "Bearer abc"
        /\ FindRequestOf(q).headers["Authorization"] = "Bearer xyz"

Reduced(p) ==
    /\ pc[p] = "returned"
    /\ call[p].tool = "get-layout-metadata"
    /\ metaDataResponse[p].success
    /\ metaDataResponse[p].data.t # "null"

\* the reduced list the handler of invocation p turned into text
FieldInfoOf(p) == output[p].text.json

\* a descriptor as its JSON text carries it: keys whose value is undefined
\* are left out
WithoutUndefined(field) ==
    [k \in {j \in DOMAIN field : field[j].t # "undefined"} |-> field[k]]

\* a decoded metadata reply whose fieldMetaData is the given list
ReplyWith(list) ==
    ObjectBody(Array(<<[code |-> Str("0"), message |-> Str("OK")]>>),
               FieldsObject(list))

\* C18: the reduction the get-layout-metadata handler applies (keeping name,
\* type, displayType, result, valueList, global of each field) is idempotent:
\* applied to an already-reduced list, as held in memory or as read back from
\* its JSON text, it yields the same list, with the same length and order.
C18_ReductionIdempotent ==
    \A p \in Invocations :
        Reduced(p)
            => LET once == FieldInfoOf(p)
                   twice == FieldInfo(ReplyWith(once))
                   reread == FieldInfo(ReplyWith(
                                 Array([i \in DOMAIN once.items |->
                                           WithoutUndefined(once.items[i])])))
               IN  /\ twice = Ret(once)
                   /\ reread = Ret(once)
                   /\ Len(twice.value.items) = Len(once.items)
                   /\ \A i \in DOMAIN once.items :
                          /\ twice.value.items[i] = once.items[i]
                          /\ ReduceField(once.items[i]) = once.items[i]

\* a list of two descriptors was reduced, one losing a key the reduction
\* does not keep and one having no valueList
C18_Witness ==
    \E p \in Invocations :
        /\ Reduced(p)
        /\ Len(FieldInfoOf(p).items) = 2
        /\ FieldInfoOf(p).items[1].name = Str("name")
        /\ FieldInfoOf(p).items[2].valueList = Undef
        /\ "maxRepeat" \in DOMAIN MetaDataReplyOf(p).body.response
                                      .fieldMetaData.items[1]
        /\ FieldInfoOf(p) # MetaDataReplyOf(p).body.response.fieldMetaData
        /\ FieldInfo(ReplyWith(FieldInfoOf(p))) = Ret(FieldInfoOf(p))

\* invocation p began with a login: the get-token tool, or a find-records
\* handler that acquires its own token
LoggedIn(p) ==
    /\ "tool" \in DOMAIN call[p]
    /\ \/ call[p].tool = "get-token"
       \/ call[p].tool = "find-records" /\ SelfContainedFind(snapshot)

\* the caller of getFileMakerToken in invocation p can pass account,
\* password and server URL
TakesCredentials(p) ==
    ExplicitCredentials(snapshot) /\ call[p].tool = "get-token"

\* the tool of invocation p takes a database name
TakesFileName(p) == snapshot # "part_001"

\* the text of an environment variable read with || ''
EnvOrEmpty(x) == IF x.t = "string" /\ x.v # "" THEN x.v ELSE ""

\* the environment's value for a credential: read with || '' where
\* getFileMakerToken has parameters for them, interpolated as is elsewhere
EnvCredential(x) ==
    IF ExplicitCredentials(snapshot) THEN EnvOrEmpty(x) ELSE Tmpl(x)

LoginUrl(serverUrl, fileName) ==
    serverUrl \o "/fmi/data/v1/databases/" \o fileName \o "/sessions"

LoginAuth(account, password) ==
    "Basic base64<" \o account \o ":" \o password \o ">"

EndsWith(s, suffix) ==
    /\ Len(s) >= Len(suffix)
    /\ SubSeq(s, Len(s) - Len(suffix) + 1, Len(s)) = suffix

\* s starts with prefix
StartsWith(s, prefix) ==
    /\ Len(s) >= Len(prefix)
    /\ SubSeq(s, 1, Len(prefix)) = prefix

\* {base}: the database's endpoint, for the defaults of this process
DefaultBase ==
    Tmpl(DEFAULT_SERVER_URL(snapshot, environ)) \o "/fmi/data/v1/databases/"
        \o Tmpl(DEFAULT_DATABASE(snapshot, environ))

\* C20: the request each operation sends matches the wire contract: release
\* is a DELETE to {base}/sessions/{token} with no Authorization header; find
\* and metadata send Authorization 'Bearer ' followed by exactly the token
\* argument the caller passed; acquire is a POST to {base}/sessions with Basic
\* authentication and no request body.
C20_WireContract ==
    \A p \in Invocations :
        "tool" \in DOMAIN call[p]
            => /\ call[p].tool = "abandon-token"
                      => /\ Len(requests[p]) = 1
                         /\ requests[p][1].method = "DELETE"
                         /\ requests[p][1].url
                                = DefaultBase \o "/sessions/"
                                      \o call[p].params.token.v
                         /\ "Authorization" \notin DOMAIN requests[p][1].headers
                         /\ "body" \notin DOMAIN requests[p][1]
               /\ call[p].tool = "get-layout-metadata"
                      => /\ requests[p][1].method = "GET"
                         /\ StartsWith(requests[p][1].url,
                                       DefaultBase \o "/layouts/")
                         /\ requests[p][1].headers["Authorization"]
                                = "Bearer " \o call[p].params.token.v
               /\ FindIssued(p)
                      => /\ FindRequestOf(p).method = "POST"
                         /\ EndsWith(FindRequestOf(p).url, "/_find")
                         /\ FindRequestOf(p).headers["Authorization"]
                                = "Bearer " \o FindArgsOf(p).token.v
                         /\ FindArgsOf(p).token.t = "string"
                         /\ FindArgsOf(p).token
                                = IF SelfContainedFind(snapshot)
                                  THEN TokenReplyOf(p).body.response.token
                                  ELSE call[p].params.token
               /\ LoggedIn(p)
                      => /\ requests[p][1].method = "POST"
                         /\ EndsWith(requests[p][1].url, "/sessions")
                         /\ Includes(requests[p][1].url, "/fmi/data/v1/databases/")
                         /\ StartsWith(requests[p][1].headers["Authorization"],
                                       "Basic base64<")
                         /\ "body" \notin DOMAIN requests[p][1]

\* a release of token "xyz" was sent as a DELETE to .../sessions/xyz without
\* an Authorization header
C20_Witness ==
    \E p \in Invocations :
        /\ "tool" \in DOMAIN call[p]
        /\ call[p].tool = "abandon-token"
        /\ call[p].params.token = Str("xyz")
        /\ requests[p][1].method = "DELETE"
        /\ EndsWith(requests[p][1].url, "/sessions/xyz")
        /\ DOMAIN requests[p][1].headers = {"Content-Type"}

\* the envelope the handler of invocation p turned into its text
TextEnvelope(p) ==
    CASE call[p].tool = "get-token" -> tokenResponse[p]
      [] call[p].tool = "get-layout-metadata" -> metaDataResponse[p]
      [] OTHER -> IF Called(findResponse[p]) THEN findResponse[p]
                  ELSE tokenResponse[p]

\* the handler's fallback text for that envelope
FallbackText(p) ==
    CASE call[p].tool = "get-layout-metadata" -> Str("Failed to get metadata")
      [] call[p].tool = "find-records" /\ Called(findResponse[p]) ->
             Str("Failed to find records")
      [] OTHER -> Str("Failed to get token")

FallbackTexts ==
    {Str("Failed to get token"), Str("Failed to find records"),
     Str("Failed to get metadata")}

\* the envelope has a message a text can be made of
UsableMessage(envelope) ==
    /\ "error" \in DOMAIN envelope
    /\ envelope.error.message.t = "string"
    /\ envelope.error.message.v # ""

\* the handler of invocation p returned a text made from an envelope
TextReturned(p) ==
    /\ pc[p] = "returned"
    /\ call[p].tool # "abandon-token"

\* C21 (as stated): for every failure envelope the text a handler returns is
\* the failure's message; for every success envelope of get-token it is the
\* token; a fallback text is returned only when the envelope has no usable
\* message.
C21_Original ==
    \A p \in Invocations :
        TextReturned(p)
            => /\ (~TextEnvelope(p).success /\ UsableMessage(TextEnvelope(p)))
                      => output[p] = Text(TextEnvelope(p).error.message)
               /\ (call[p].tool = "get-token" /\ TextEnvelope(p).success)
                      => output[p] = Text(TextEnvelope(p).data.token)
               /\ output[p].text \in FallbackTexts
                      => /\ ~UsableMessage(TextEnvelope(p))
                         /\ output[p].text = FallbackText(p)

\* invocation p is a find-records call of a handler that acquires its own
\* token
SelfContained(p) ==
    /\ "tool" \in DOMAIN call[p]
    /\ call[p].tool = "find-records"
    /\ SelfContainedFind(snapshot)

\* the requests of invocation p that go to the _find endpoint
FindRequestsOf(p) ==
    {i \in DOMAIN requests[p] : EndsWith(requests[p][i].url, "/_find")}

\* acquire-token returned success with a non-empty token
TokenAcquired(p) ==
    /\ Called(tokenResponse[p])
    /\ tokenResponse[p].success
    /\ tokenResponse[p].data.token.t = "string"
    /\ tokenResponse[p].data.token.v # ""

\* C22: in the find-records tool that acquires its own token, the find
\* request is issued only after acquire-token has returned success with a
\* non-empty token; when acquisition fails, or succeeds with an empty token,
\* no find request is sent and the handler returns the acquisition failure
\* text.
C22_FindOnlyAfterToken ==
    \A p \in Invocations :
        SelfContained(p)
            => /\ EndsWith(requests[p][1].url, "/sessions")
               /\ FindRequestsOf(p) # {}
                      => /\ TokenAcquired(p)
                         /\ FindRequestsOf(p) = {2}
                         /\ Len(replies[p]) >= 1
               /\ TokenAcquired(p) => FindRequestsOf(p) = {2}
               /\ (Called(tokenResponse[p]) /\ ~TokenAcquired(p))
                      => /\ FindRequestsOf(p) = {}
                         /\ Len(requests[p]) = 1
                         /\ ~Called(findResponse[p])
                         /\ pc[p] = "returned"
                         /\ output[p] =
                                IF UsableMessage(tokenResponse[p])
                                THEN Text(tokenResponse[p].error.message)
                                ELSE Text(Str("Failed to get token"))

\* a login that succeeded with an empty token: the handler returned 'Failed
\* to get token' and sent no find request
C22_Witness ==
    \E p \in Invocations :
        /\ SelfContained(p)
        /\ Called(tokenResponse[p])
        /\ tokenResponse[p] = Success([token |-> Str("")])
        /\ pc[p] = "returned"
        /\ Len(requests[p]) = 1
        /\ output[p] = Text(Str("Failed to get token"))

\* the requests of invocation p that release a session
ReleasesOf(p) ==
    {i \in DOMAIN requests[p] : requests[p][i].method = "DELETE"}

\* the sessions invocation p has opened on the server and not released
OpenSessions(p) ==
    IF TokenAcquired(p) /\ ReleasesOf(p) = {} THEN 1 ELSE 0

\* C23: in the find-records tool that acquires its own token, the token is
\* never released: on every path after a successful acquire (find success,
\* find failure, find exception) the handler returns without issuing a
\* DELETE for the token, so the invocation leaves one more open session on
\* the server.
C23_TokenNeverReleased ==
    \A p \in Invocations :
        SelfContained(p)
            => /\ ReleasesOf(p) = {}
               /\ \A i \in DOMAIN requests[p] : requests[p][i].method = "POST"
               /\ (TokenAcquired(p) /\ pc[p] = "returned")
                      => /\ Called(findResponse[p])
                         /\ Len(requests[p]) = 2
                         /\ Len(replies[p]) = 2
                         /\ \A i \in DOMAIN requests[p] :
                                ~EndsWith(requests[p][i].url,
                                          "/sessions/"
                                              \o tokenResponse[p].data.token.v)
                         /\ OpenSessions(p) = 1
               /\ pc[p] \notin {"abandonFileMakerToken", "threw"}

\* a handler that acquired token "abc" returned after its find ended in an
\* exception, having sent the login and the find and nothing else
C23_Witness ==
    \E p \in Invocations :
        /\ SelfContained(p)
        /\ TokenAcquired(p)
        /\ tokenResponse[p].data.token = Str("abc")
        /\ pc[p] = "returned"
        /\ IsFailure(findResponse[p], {"API_ERROR"})
        /\ raised[p] # NoError
        /\ Len(requests[p]) = 2
        /\ OpenSessions(p) = 1

\* the abandon-token handler of invocation p has finished
AbandonDone(p) ==
    /\ pc[p] \in {"returned", "threw"}
    /\ call[p].tool = "abandon-token"

AbandonedText == Text(Str("Token abandoned successfully"))

\* C24: the abandon-token tool returns the text 'Token abandoned
\* successfully' only if abandonFileMakerToken returned normally (HTTP ok and
\* embedded code "0"); on any release failure the exception propagates out of
\* the handler and no success text is produced.
C24_TextOnlyOnRelease ==
    \A p \in Invocations :
        /\ ("tool" \in DOMAIN call[p] /\ call[p].tool = "abandon-token"
              /\ output[p] # NoOutput)
               => /\ output[p] = AbandonedText
                  /\ pc[p] = "returned"
                  /\ AbandonReplyOf(p).kind = "json"
                  /\ ZeroCode(AbandonReplyOf(p))
                  /\ thrown[p] = NoError
        /\ AbandonDone(p)
               => IF AbandonReplyOf(p).kind = "json" /\ ZeroCode(AbandonReplyOf(p))
                  THEN output[p] = AbandonedText /\ pc[p] = "returned"
                  ELSE /\ pc[p] = "threw"
                       /\ thrown[p].isError
                       /\ output[p] = NoOutput
        /\ output[p] = AbandonedText
               => call[p].tool = "abandon-token"

\* a release answered HTTP 200 with the number 0 as its code: the handler
\* threw and produced no text
C24_Witness ==
    \E p \in Invocations :
        /\ AbandonDone(p)
        /\ HasHead(AbandonReplyOf(p))
        /\ HeadOf(AbandonReplyOf(p)).code = Num("0")
        /\ pc[p] = "threw"
        /\ output[p] = NoOutput

\* the variant and kind of an envelope
KindOf(envelope) ==
    IF envelope.success THEN "success" ELSE envelope.error.type

\* exactly one of the two variants
TwoVariants(envelope) ==
    \/ /\ envelope.success
       /\ DOMAIN envelope = {"success", "data"}
    \/ /\ ~envelope.success
       /\ DOMAIN envelope = {"success", "error"}
       /\ envelope.error.type
              \in {"INVALID_RESPONSE", "FILEMAKER_ERROR", "API_ERROR"}

\* the decoded body has no response object to read the payload from
NoPayload(reply) == reply.body.response.t \in {"undefined", "null"}

\* the variant and kind that the way the fetch settled decides, for
\* getFileMakerToken (by whether the snapshot checks the shape), findRecords
\* and getLayoutMetaData
TokenKind(reply, guarded) ==
    IF TransportFailed(reply) \/ reply.body.t = "null" THEN "INVALID_RESPONSE"
    ELSE IF guarded /\ ~HasTokenShape(reply.body) THEN "INVALID_RESPONSE"
    ELSE IF NoHead(reply) THEN "API_ERROR"
    ELSE IF HeadOf(reply).code # Str("0") THEN "FILEMAKER_ERROR"
    ELSE IF NoPayload(reply) THEN "API_ERROR"
    ELSE "success"

FindKind(reply) ==
    IF TransportFailed(reply) \/ reply.body.t = "null" THEN "INVALID_RESPONSE"
    ELSE IF NoHead(reply) THEN "API_ERROR"
    ELSE IF HeadOf(reply).code # Str("0") THEN "FILEMAKER_ERROR"
    ELSE IF NoPayload(reply) THEN "API_ERROR"
    ELSE "success"

MetaDataKind(reply) ==
    IF TransportFailed(reply) \/ reply.body.t = "null" THEN "API_ERROR"
    ELSE IF NoHead(reply) THEN "API_ERROR"
    ELSE IF HeadOf(reply).code # Str("0") THEN "FILEMAKER_ERROR"
    ELSE "success"

\* C25: every envelope returned by getFileMakerToken, findRecords or
\* getLayoutMetaData is exactly one of two variants: success=true with a data
\* field and no error field, or success=false with an error field and no
\* data field, where error.type is one of INVALID_RESPONSE, FILEMAKER_ERROR,
\* API_ERROR; the variant and kind are a function of the transport outcome
\* and the decoded body.
C25_TwoVariants ==
    \A p \in Invocations :
        /\ Called(tokenResponse[p])
               => /\ TwoVariants(tokenResponse[p])
                  /\ KindOf(tokenResponse[p])
                         = TokenKind(TokenReplyOf(p), Guarded(snapshot))
        /\ Called(findResponse[p])
               => /\ TwoVariants(findResponse[p])
                  /\ KindOf(findResponse[p]) = FindKind(FindReplyOf(p))
        /\ Called(metaDataResponse[p])
               => /\ TwoVariants(metaDataResponse[p])
                  /\ KindOf(metaDataResponse[p])
                         = MetaDataKind(MetaDataReplyOf(p))

\* a find reply with code "0" and no response object came back as a failure
\* of kind API_ERROR, with an error field and no data field
C25_Witness ==
    \E p \in Invocations :
        /\ Called(findResponse[p])
        /\ ZeroCode(FindReplyOf(p))
        /\ NoPayload(FindReplyOf(p))
        /\ DOMAIN findResponse[p] = {"success", "error"}
        /\ KindOf(findResponse[p]) = "API_ERROR"

=============================================================================
